---------------------------- MODULE Spec2Model ----------------------------
(***************************************************************************)
(* EnvMon4: clock / environment monitor (src/EnvMon4.ino).                 *)
(*                                                                         *)
(* The model follows the sketch: setup(), loop(), setClock(), the EEPROM   *)
(* signature routines, the formatting helpers and sdLog()/halt().  The     *)
(* Arduino libraries the sketch calls (TimeLib, Timezone, DS3232RTC,       *)
(* Stream::parseInt) are modelled by what they compute, with time_t as an  *)
(* unsigned 32-bit count of seconds since 1970-01-01 00:00:00.             *)
(***************************************************************************)
EXTENDS Integers, Sequences, FiniteSets, TLC

(***************************************************************************)
(* Program constants (#define lines of the sketch).                        *)
(***************************************************************************)
EEBASE == 100
SIG1 == 85
SIG2 == 170
SHOWLOC == 0
SHOWUTC == 1
HUMAN == 1000
SyncInterval == 3600

TZBASE == EEBASE + 2

(***************************************************************************)
(* Bounds of the model.                                                    *)
(***************************************************************************)
\* seconds the clock may run past the long anchor instant (a whole 5-minute
\* bucket and the start of the next one)
Horizon == 303
\* seconds the clock may be short of any other anchor instant, and past it
Lead == 10
Trail == 3
\* lines the operator sends on the serial console
MaxLines == 1
\* seconds that may pass without loop() running
MaxDelay == 2
\* one long wait of the operator, in seconds, while setClock() is blocked
IdleDelay == 17992

(***************************************************************************)
(* time_t arithmetic.  time_t is unsigned long (32 bits) on the AVR.  A    *)
(* time_t value v is represented by the integer congruent to v modulo 2^32 *)
(* in -2^31 .. 2^31 - 1: values from 2^31 on (2038 and later) are negative *)
(* here.  Sums and differences of representatives are the representatives  *)
(* of the wrapped sums and differences as long as they stay in that range, *)
(* which they do for the instants of this model (1970 .. 2037, and the     *)
(* last hours before the 2106 wrap).  2^32 = 49710 days and 23296 seconds. *)
(***************************************************************************)
\* unsigned a < b
ULess(a, b) == IF (a < 0) = (b < 0) THEN a < b ELSE b < 0

\* whole days since 1970-01-01 of the unsigned value
elapsedDays(t) == IF t >= 0 THEN t \div 86400 ELSE 49710 + ((t + 23296) \div 86400)

\* seconds since midnight of the unsigned value
secondOfDay(t) == IF t >= 0 THEN t % 86400 ELSE (t + 23296) % 86400

\* the time_t of second s (0 .. 86399) of day D, wrapped to 32 bits
RECURSIVE timeOfDay(_, _)
timeOfDay(D, s) ==
    IF D < 24855 \/ (D = 24855 /\ s < 11648)
    THEN D * 86400 + s
    ELSE IF D < 49710 \/ (D = 49710 /\ s < 23296)
         THEN (D - 49710) * 86400 + (s - 23296)
         ELSE IF s >= 23296
              THEN timeOfDay(D - 49710, s - 23296)
              ELSE timeOfDay(D - 49711, s - 23296 + 86400)

Mod8(x) == x % 256

(***************************************************************************)
(* TimeLib calendar functions.                                             *)
(***************************************************************************)
\* LEAP_YEAR(Y), Y an offset from 1970
LEAP_YEAR(Y) ==
    LET y == 1970 + Y
    IN  y > 0 /\ y % 4 = 0 /\ (y % 100 # 0 \/ y % 400 = 0)

monthDays == <<31, 28, 31, 30, 31, 30, 31, 31, 30, 31, 30, 31>>

\* leap years among the calendar years 1 .. n
LeapsThrough(n) == (n \div 4) - (n \div 100) + (n \div 400)

\* days from 1970-01-01 to the first day of year 1970 + Y: makeTime's loop
\* "seconds = Y * 365 days, plus one day per leap year before Y"
DaysBeforeYear(Y) == 365 * Y + LeapsThrough(1969 + Y) - LeapsThrough(1969)

\* days of month m (1..12) of year 1970 + Y
DaysInMonth(m, Y) == IF m = 2 /\ LEAP_YEAR(Y) THEN 29 ELSE monthDays[m]

RECURSIVE DaysBeforeMonth(_, _)
DaysBeforeMonth(m, Y) ==
    IF m <= 1 THEN 0 ELSE DaysBeforeMonth(m - 1, Y) + DaysInMonth(m - 1, Y)

\* makeTime(tm): tm.Year is an offset from 1970, every field a uint8_t;
\* the sum is formed in a uint32_t
makeTime(tm) ==
    LET secs == tm.Hour * 3600 + tm.Minute * 60 + tm.Second
        days == DaysBeforeYear(tm.Year) + DaysBeforeMonth(tm.Month, tm.Year)
                  + (tm.Day - 1) + (secs \div 86400)
    IN  timeOfDay(days, secs % 86400)

RECURSIVE YearFrom(_, _)
YearFrom(days, Y) ==
    IF days < DaysBeforeYear(Y + 1) THEN Y ELSE YearFrom(days, Y + 1)

\* breakTime's year loop: the offset from 1970 of the year holding t
tmYear(t) == YearFrom(elapsedDays(t), elapsedDays(t) \div 366)

RECURSIVE MonthFrom(_, _, _)
MonthFrom(d, m, Y) ==
    IF d < DaysInMonth(m, Y) THEN <<m, d + 1>>
    ELSE MonthFrom(d - DaysInMonth(m, Y), m + 1, Y)

year(t) == 1970 + tmYear(t)

\* breakTime's month loop: the month and the day of the month of t
monthDayFor(t) == MonthFrom(elapsedDays(t) - DaysBeforeYear(tmYear(t)), 1, tmYear(t))

\* refreshCache(): TimeLib keeps the fields of the instant it broke down
\* last; here the month and day of 1970-01-01 and of 2024-11-03 are kept
CachedDays ==
    {0, elapsedDays(makeTime([Year |-> 54, Month |-> 11, Day |-> 3,
                              Hour |-> 0, Minute |-> 0, Second |-> 0]))}

m_monthDay == [D \in CachedDays |-> monthDayFor(D * 86400)]

monthDay(t) ==
    IF elapsedDays(t) \in CachedDays THEN m_monthDay[elapsedDays(t)] ELSE monthDayFor(t)

month(t) == monthDay(t)[1]

day(t) == monthDay(t)[2]

hour(t) == secondOfDay(t) \div 3600

minute(t) == (secondOfDay(t) \div 60) % 60

second(t) == secondOfDay(t) % 60

\* Sunday is day 1
weekday(t) == ((elapsedDays(t) + 4) % 7) + 1

\* CalendarYrToTm(y) and y2kYearToTm(y), stored in the uint8_t tm.Year
CalendarYrToTm(y) == Mod8(y - 1970)

y2kYearToTm(y) == Mod8(y + 30)

(***************************************************************************)
(* Timezone library: TimeChangeRule, Timezone::toLocal, Timezone::toUTC.   *)
(* week: Last = 0, First = 1, Second = 2; dow: Sun = 1; month: Jan = 1.    *)
(***************************************************************************)
myDST == [abbrev |-> "EDT", week |-> 2, dow |-> 1, month |-> 3, hour |-> 2, offset |-> -240]

mySTD == [abbrev |-> "EST", week |-> 1, dow |-> 1, month |-> 11, hour |-> 2, offset |-> -300]

\* the compiled-in rule pair: Timezone myTZ(myDST, mySTD)
DefaultRules == [dst |-> myDST, std |-> mySTD]

\* another rule pair a Timezone::writeRules() may have left in the EEPROM
\* (United Kingdom: BST from the last Sunday of March, GMT from the last
\* Sunday of October)
StoredBST == [abbrev |-> "BST", week |-> 0, dow |-> 1, month |-> 3, hour |-> 1, offset |-> 60]

StoredGMT == [abbrev |-> "GMT", week |-> 0, dow |-> 1, month |-> 10, hour |-> 2, offset |-> 0]

OtherRules == [dst |-> StoredBST, std |-> StoredGMT]

\* Timezone::toTime_t(r, yr): the rule's local change instant in year yr
toTime_t(r, yr) ==
    LET last == (r.week = 0)
        m1   == IF last THEN r.month + 1 ELSE r.month
        m    == IF m1 > 12 THEN 1 ELSE m1
        y    == IF m1 > 12 THEN yr + 1 ELSE yr
        w    == IF last THEN 1 ELSE r.week
        t0   == makeTime([Year |-> y - 1970, Month |-> m, Day |-> 1,
                          Hour |-> r.hour, Minute |-> 0, Second |-> 0])
        t1   == t0 + (((r.dow - weekday(t0) + 7) % 7) + (w - 1) * 7) * 86400
    IN  IF last THEN t1 - 7 * 86400 ELSE t1

\* Timezone::calcTimeChanges(yr): the four change instants of year yr
calcTimeChangesFor(rules, yr) ==
    LET dstLoc == toTime_t(rules.dst, yr)
        stdLoc == toTime_t(rules.std, yr)
    IN  [dstLoc |-> dstLoc, stdLoc |-> stdLoc,
         dstUTC |-> dstLoc - rules.std.offset * 60,
         stdUTC |-> stdLoc - rules.dst.offset * 60]

\* m_dstLoc, m_stdLoc, m_dstUTC, m_stdUTC: the library keeps the instants of
\* the year it computed last; here those of 2024 for the two rule pairs
m_changes == [r \in {DefaultRules, OtherRules} |-> calcTimeChangesFor(r, 2024)]

\* the change instants utcIsDST() and locIsDST() compare with: the kept
\* ones, or those computed anew for another year
calcTimeChanges(rules, yr) ==
    IF yr = 2024 /\ rules \in DOMAIN m_changes
    THEN m_changes[rules]
    ELSE calcTimeChangesFor(rules, yr)

\* Timezone::utcIsDST(utc) with the end of daylight time one second late
utcIsDSTInclusive(rules, utc) ==
    LET c == calcTimeChanges(rules, year(utc))
    IN  ~ULess(utc, c.dstUTC) /\ ~ULess(c.stdUTC, utc)

\* Timezone::utcIsDST(utc)
utcIsDST(rules, utc) ==
    LET c == calcTimeChanges(rules, year(utc))
    IN  IF c.stdUTC = c.dstUTC THEN FALSE
        ELSE IF ULess(c.dstUTC, c.stdUTC)
             THEN ~ULess(utc, c.dstUTC) /\ ULess(utc, c.stdUTC)
             ELSE ~(~ULess(utc, c.stdUTC) /\ ULess(utc, c.dstUTC))

\* Timezone::locIsDST(local)
locIsDST(rules, local) ==
    LET c == calcTimeChanges(rules, year(local))
    IN  IF c.stdUTC = c.dstUTC THEN FALSE
        ELSE IF ULess(c.dstLoc, c.stdLoc)
             THEN ~ULess(local, c.dstLoc) /\ ULess(local, c.stdLoc)
             ELSE ~(~ULess(local, c.stdLoc) /\ ULess(local, c.dstLoc))

\* Timezone::toLocal(utc, &tcr) with the standard offset whatever the date
toLocalStandardOnly(rules, utc) ==
    [t |-> utc + rules.std.offset * 60, tcr |-> rules.std]

\* Timezone::toLocal(utc, &tcr): the local time and the rule in force
toLocal(rules, utc) ==
    IF utcIsDST(rules, utc)
    THEN [t |-> utc + rules.dst.offset * 60, tcr |-> rules.dst]
    ELSE [t |-> utc + rules.std.offset * 60, tcr |-> rules.std]

\* Timezone::toUTC(local) with the standard offset whatever the date
toUTCStandardOnly(rules, local) == local - rules.std.offset * 60

\* Timezone::toUTC(local)
toUTC(rules, local) ==
    IF locIsDST(rules, local)
    THEN local - rules.dst.offset * 60
    ELSE local - rules.std.offset * 60

(***************************************************************************)
(* The serial console's receive buffer and Stream::parseInt().  A byte of  *)
(* the buffer is [c |-> character, ln |-> number of the line it came in].  *)
(***************************************************************************)
DigitVal == [c \in {"0", "1", "2", "3", "4", "5", "6", "7", "8", "9"} |->
               CASE c = "0" -> 0 [] c = "1" -> 1 [] c = "2" -> 2 [] c = "3" -> 3
                 [] c = "4" -> 4 [] c = "5" -> 5 [] c = "6" -> 6 [] c = "7" -> 7
                 [] c = "8" -> 8 [] c = "9" -> 9]

IsDigit(c) == c \in DOMAIN DigitVal

\* peekNextDigit(SKIP_ALL): discard bytes up to the first digit or minus sign
RECURSIVE peekNextDigit(_)
peekNextDigit(buf) ==
    IF buf = <<>> \/ IsDigit(Head(buf).c) \/ Head(buf).c = "-"
    THEN buf
    ELSE peekNextDigit(Tail(buf))

RECURSIVE readDigits(_, _)
readDigits(buf, v) ==
    IF buf # <<>> /\ IsDigit(Head(buf).c)
    THEN readDigits(Tail(buf), v * 10 + DigitVal[Head(buf).c])
    ELSE [val |-> v, rest |-> buf]

\* Stream::parseInt(): 0 on a timeout (nothing left to read); the byte that
\* ends the number stays in the buffer
parseInt(buf) ==
    LET b == peekNextDigit(buf)
    IN  IF b = <<>> THEN [val |-> 0, rest |-> <<>>]
        ELSE LET neg == Head(b).c = "-"
                 r   == readDigits(Tail(b), IF neg THEN 0 ELSE DigitVal[Head(b).c])
             IN  [val |-> IF neg THEN 0 - r.val ELSE r.val, rest |-> r.rest]

(***************************************************************************)
(* The lines the operator types (the environment of setClock()).           *)
(***************************************************************************)
\* 24,11,3,1,0,0: local 2024-11-03 01:00:00, two-digit year
LineTwoDigit == <<"2", "4", ",", "1", "1", ",", "3", ",", "1", ",", "0", ",", "0", "\n">>

\* 2024,11,3,0,59,57: local 2024-11-03 00:59:57, four-digit year
LineFourDigit == <<"2", "0", "2", "4", ",", "1", "1", ",", "3", ",", "0", ",",
                   "5", "9", ",", "5", "7", "\n">>

\* 124,3,5,9,30,0: a three-digit year
LineThreeDigit == <<"1", "2", "4", ",", "3", ",", "5", ",", "9", ",", "3", "0", ",", "0", "\n">>

\* 1969,7,20,20,17,0: local 1969-07-20 20:17:00, a year before 1970
LineOldYear == <<"1", "9", "6", "9", ",", "7", ",", "2", "0", ",", "2", "0", ",",
                 "1", "7", ",", "0", "\n">>

\* 24,3,15,9,30,0: local 2024-03-15 09:30:00
LineMarch == <<"2", "4", ",", "3", ",", "1", "5", ",", "9", ",", "3", "0", ",", "0", "\n">>

\* an empty line (the operator presses return)
LineEmpty == <<"\n">>

LineKinds == {"two", "four", "three", "old", "march", "empty"}

LineText(k) ==
    CASE k = "two"   -> LineTwoDigit
      [] k = "four"  -> LineFourDigit
      [] k = "three" -> LineThreeDigit
      [] k = "old"   -> LineOldYear
      [] k = "march" -> LineMarch
      [] k = "empty" -> LineEmpty

\* the six integers the operator meant, for the well-formed lines
LineFields(k) ==
    CASE k = "two"   -> <<24, 11, 3, 1, 0, 0>>
      [] k = "four"  -> <<2024, 11, 3, 0, 59, 57>>
      [] k = "three" -> <<124, 3, 5, 9, 30, 0>>
      [] k = "old"   -> <<1969, 7, 20, 20, 17, 0>>
      [] k = "march" -> <<24, 3, 15, 9, 30, 0>>
      [] k = "empty" -> <<>>

LineBytes(k, n) == [i \in 1 .. Len(LineText(k)) |-> [c |-> LineText(k)[i], ln |-> n]]

\* the line numbers of the bytes of buf
RECURSIVE LinesOf(_)
LinesOf(buf) == IF buf = <<>> THEN {} ELSE {Head(buf).ln} \cup LinesOf(Tail(buf))

(***************************************************************************)
(* Sensor readings (DHT22), in hundredths; NaN is a failed read.           *)
(***************************************************************************)
NaN == -99999

SensorSamples == { [temp |-> NaN,  hum |-> NaN],
                   [temp |-> 2150, hum |-> 4025],
                   [temp |-> -550, hum |-> NaN] }

\* (int) c: truncation toward zero of a value in hundredths
TruncHundredths(c) == IF c >= 0 THEN c \div 100 ELSE 0 - ((0 - c) \div 100)

Placeholder == <<"*", "*">>

\* mkTempStr: bufTemp is "**" or sprintf("%d.%d", i, f)
mkTempStr(c) ==
    IF c = NaN THEN Placeholder
    ELSE LET i == TruncHundredths(c)
             f == c - 100 * i
         IN  <<i, ".", f>>

\* a formatter that prints a failed read as zero
mkHumidStrZero(h) ==
    LET v == IF h = NaN THEN 0 ELSE h
        i == TruncHundredths(v)
        d == v - 100 * i
    IN  <<i, ".", d \div 10>>

\* mkHumidStr: bufHumid is "**" or sprintf("%d.%1d", i, f)
mkHumidStr(h) ==
    IF h = NaN THEN Placeholder
    ELSE LET i == TruncHundredths(h)
             d == h - 100 * i
             f == IF d >= 0 THEN d \div 10 ELSE 0 - ((0 - d) \div 10)
         IN  <<i, ".", f>>

\* consoleUpdate() with the humidity printed before the temperature
consoleUpdateHumidFirst(d, t, c, h) == <<d, "T", t, "Z", ",", h, ",", c, "\r\n">>

\* consoleUpdate(): what it prints from bufDate, bufTime, bufTemp, bufHumid;
\* endl is the line end of println()
consoleUpdate(d, t, c, h) == <<d, "T", t, "Z", ",", c, ",", h, "\r\n">>

\* sdLog(): what it prints to the file from the same four buffers
sdLogRow(d, t, c, h) == <<d, "T", t, "Z", ",", c, ",", h, "\r\n">>

\* a formatter that asks the sensor again after a failed read
readCallsRetry(c) == IF c = NaN THEN 2 ELSE 1

\* the calls of dht.readTemperature() / dht.readHumidity() one formatter
\* makes, whatever value c the call returns
readCalls(c) == 1

\* mkDateStr: sprintf("%04d-%02d-%02d", year, month, day)
mkDateStr(t) == <<year(t), month(t), day(t)>>

\* mkTimeStr: sprintf("%02d:%02d:%02d", hour, minute, second)
mkTimeStr(t) == <<hour(t), minute(t), second(t)>>

(***************************************************************************)
(* EEPROM: the two signature bytes at EEBASE and the rule pair at TZBASE.  *)
(***************************************************************************)
\* an erased EEPROM cell
Erased == 255

NoRules == [dst |-> [abbrev |-> "", week |-> Erased, dow |-> Erased, month |-> Erased,
                     hour |-> Erased, offset |-> -1],
            std |-> [abbrev |-> "", week |-> Erased, dow |-> Erased, month |-> Erased,
                     hour |-> Erased, offset |-> -1]]

\* validSignature() with the bytes only one of which matches
validSignatureEither(ee) == ee.by1 = SIG1 \/ ee.by2 = SIG2

\* validSignature()
validSignature(ee) == ee.by1 = SIG1 /\ ee.by2 = SIG2

\* writeSignature()
writeSignature(ee) == [ee EXCEPT !.by1 = SIG1, !.by2 = SIG2]

\* Timezone::writeRules() that stores nothing
writeRulesSkipped(ee, rules) == ee

\* Timezone::writeRules(TZBASE)
writeRules(ee, rules) == [ee EXCEPT !.tz = rules]

\* adjustMode() that does not look at the pin
adjustModeStuck(pin) == SHOWLOC

\* adjustMode(): digitalRead(MODEPIN) ? SHOWLOC : SHOWUTC
adjustMode(pin) == IF pin = 1 THEN SHOWLOC ELSE SHOWUTC

(***************************************************************************)
(* setClock(), from the end of its wait for serial input: buf is the       *)
(* receive buffer (not empty), tz the rule pair of the global myTZ, ee the *)
(* EEPROM.  The result says what the call did:                             *)
(*   outcome "short": fewer than 12 bytes were available, nothing is done  *)
(*   outcome "error": the year is in 100 .. 999, the error is printed      *)
(*   outcome "set":   the clocks and the EEPROM are written                *)
(***************************************************************************)
\* setClock() that saves the signature and the rules before it looks at the
\* input
setClockSavesAlways(buf, tz, ee) ==
    LET p1 == parseInt(buf)
        p2 == parseInt(p1.rest)
        p3 == parseInt(p2.rest)
        p4 == parseInt(p3.rest)
        p5 == parseInt(p4.rest)
        p6 == parseInt(p5.rest)
        y  == p1.val
        tm == [Year   |-> IF y >= 1000 THEN CalendarYrToTm(y) ELSE y2kYearToTm(y),
               Month  |-> Mod8(p2.val), Day    |-> Mod8(p3.val),
               Hour   |-> Mod8(p4.val), Minute |-> Mod8(p5.val),
               Second |-> Mod8(p6.val)]
        t  == makeTime(tm)
    IN  IF Len(buf) < 12
        THEN [outcome |-> "short", rx |-> buf, ee |-> writeRules(writeSignature(ee), tz),
              parsed |-> <<>>]
        ELSE IF y >= 100 /\ y < 1000
        THEN [outcome |-> "error", rx |-> p1.rest, ee |-> ee,
              parsed |-> SubSeq(buf, 1, Len(buf) - Len(p1.rest))]
        ELSE [outcome |-> "set", rx |-> <<>>, ee |-> writeRules(writeSignature(ee), tz),
              parsed |-> SubSeq(buf, 1, Len(buf) - Len(p6.rest)),
              tm |-> tm, local |-> t, utc |-> toUTC(tz, t), rtc |-> toUTC(tz, t)]

\* setClock() with writeSignature() called before the year is checked
setClockSignsEarly(buf, tz, ee) ==
    LET p1 == parseInt(buf)
        p2 == parseInt(p1.rest)
        p3 == parseInt(p2.rest)
        p4 == parseInt(p3.rest)
        p5 == parseInt(p4.rest)
        p6 == parseInt(p5.rest)
        y  == p1.val
        tm == [Year   |-> IF y >= 1000 THEN CalendarYrToTm(y) ELSE y2kYearToTm(y),
               Month  |-> Mod8(p2.val), Day    |-> Mod8(p3.val),
               Hour   |-> Mod8(p4.val), Minute |-> Mod8(p5.val),
               Second |-> Mod8(p6.val)]
        t  == makeTime(tm)
    IN  IF Len(buf) < 12
        THEN [outcome |-> "short", rx |-> buf, ee |-> ee, parsed |-> <<>>]
        ELSE IF y >= 100 /\ y < 1000
        THEN [outcome |-> "error", rx |-> p1.rest, ee |-> writeSignature(ee),
              parsed |-> SubSeq(buf, 1, Len(buf) - Len(p1.rest))]
        ELSE [outcome |-> "set", rx |-> <<>>, ee |-> writeRules(writeSignature(ee), tz),
              parsed |-> SubSeq(buf, 1, Len(buf) - Len(p6.rest)),
              tm |-> tm, local |-> t, utc |-> toUTC(tz, t), rtc |-> toUTC(tz, t)]

\* setClock(); rtc is the value RTC.set() writes to the hardware counter,
\* utc the value setTime() gives the software clock
setClock(buf, tz, ee) ==
    LET p1 == parseInt(buf)
        p2 == parseInt(p1.rest)
        p3 == parseInt(p2.rest)
        p4 == parseInt(p3.rest)
        p5 == parseInt(p4.rest)
        p6 == parseInt(p5.rest)
        y  == p1.val
        tm == [Year   |-> IF y >= 1000 THEN CalendarYrToTm(y) ELSE y2kYearToTm(y),
               Month  |-> Mod8(p2.val), Day    |-> Mod8(p3.val),
               Hour   |-> Mod8(p4.val), Minute |-> Mod8(p5.val),
               Second |-> Mod8(p6.val)]
        t  == makeTime(tm)
    IN  IF Len(buf) < 12
        THEN [outcome |-> "short", rx |-> buf, ee |-> ee, parsed |-> <<>>]
        ELSE IF y >= 100 /\ y < 1000
        THEN [outcome |-> "error", rx |-> p1.rest, ee |-> ee,
              parsed |-> SubSeq(buf, 1, Len(buf) - Len(p1.rest))]
        ELSE [outcome |-> "set", rx |-> <<>>, ee |-> writeRules(writeSignature(ee), tz),
              parsed |-> SubSeq(buf, 1, Len(buf) - Len(p6.rest)),
              tm |-> tm, local |-> t, utc |-> toUTC(tz, t), rtc |-> toUTC(tz, t)]

(***************************************************************************)
(* The instants of the model.                                              *)
(***************************************************************************)
\* 2024-11-03 06:00:00 UTC: daylight time ends under the compiled-in rules
FallBackUTC == calcTimeChanges(DefaultRules, 2024).stdUTC

\* 2024-11-03 05:00:00 UTC, local 01:00:00 EDT: an hour before the end of
\* daylight time, the instant the operator's two-digit line sets
SetAnchor == FallBackUTC - 3600

\* 2024-11-03 04:00:00 UTC: the start of a bucket on a quiet night
LongAnchor == FallBackUTC - 7200

\* the software clock at power-up, the instant whose local time under the
\* compiled-in rules is time_t 0, and the two instants above
ShortAnchors == {0, 0 - 60 * mySTD.offset, SetAnchor, FallBackUTC}

InWindow(t) ==
    \/ LongAnchor - Lead <= t /\ t <= LongAnchor + Horizon
    \/ \E a \in ShortAnchors : a - Lead <= t /\ t <= a + Trail

\* the hardware at power-up: the EEPROM's signature bytes and rule region,
\* the DS3231's counter and whether reading it fails, the mode jumper, and
\* whether an operator is at the serial console, and whether somebody moves
\* the jumper
PowerUpSamples ==
    { [by1 |-> SIG1, by2 |-> SIG2, tz |-> DefaultRules, rtc |-> LongAnchor - Lead,
       rtcFault |-> FALSE, modePin |-> 1, attended |-> FALSE, jumper |-> FALSE],
      [by1 |-> SIG1, by2 |-> SIG2, tz |-> OtherRules, rtc |-> FallBackUTC - Lead,
       rtcFault |-> FALSE, modePin |-> 1, attended |-> TRUE, jumper |-> FALSE],
      [by1 |-> SIG1, by2 |-> SIG2, tz |-> DefaultRules, rtc |-> FallBackUTC - Lead,
       rtcFault |-> TRUE, modePin |-> 0, attended |-> TRUE, jumper |-> FALSE],
      [by1 |-> Erased, by2 |-> Erased, tz |-> NoRules, rtc |-> SetAnchor - Lead,
       rtcFault |-> FALSE, modePin |-> 1, attended |-> TRUE, jumper |-> FALSE],
      [by1 |-> SIG1, by2 |-> Erased, tz |-> NoRules, rtc |-> FallBackUTC - Lead,
       rtcFault |-> TRUE, modePin |-> 1, attended |-> TRUE, jumper |-> FALSE],
      [by1 |-> Erased, by2 |-> SIG2, tz |-> OtherRules, rtc |-> FallBackUTC - Lead,
       rtcFault |-> FALSE, modePin |-> 0, attended |-> TRUE, jumper |-> FALSE],
      [by1 |-> SIG1, by2 |-> SIG2, tz |-> DefaultRules, rtc |-> FallBackUTC - Lead,
       rtcFault |-> FALSE, modePin |-> 0, attended |-> FALSE, jumper |-> TRUE] }

\* the 5-minute bucket of an instant
Bucket(t) == t \div 300

(***************************************************************************)
(* State.                                                                  *)
(***************************************************************************)
VARIABLES
    \* control: where the sketch is, and where a blocked setClock() returns to
    pc, ret,
    \* hardware: EEPROM, DS3231 counter and whether reading it fails, mode
    \* jumper pin, on-board LED, serial receive buffer, whether an operator is
    \* at the console, the seconds passed since loop() last ran
    eeprom, rtc, rtcFault, modePin, led, rx, attended, late,
    \* TimeLib: software clock, next synchronisation, timeStatus()
    sysTime, nextSyncTime, Status,
    \* globals of the sketch
    myTZ, tcr, zone, doLog, bufDate, bufTime, bufTemp, bufHumid,
    \* statics of loop()
    first, tLast,
    \* outputs: last record and number of errors printed on the console, last
    \* "time_t utc = " value printed, last record appended to the SD file,
    \* what the LCD shows
    conRecord, conOut, conErr, conUtc, sdLast, lcd,
    \* history of the operator's lines: how many were sent, their kinds, the
    \* lines rejected, whether a byte of a rejected line was parsed later,
    \* whether a setClock() call returned without setting the clock
    lineCount, kinds, rejected, staleParsed, flowEndedUnset,
    \* history of the start-up: the signature bytes and the rule region read,
    \* what setup() reported, whether the start-up asked for a clock-set,
    \* the number of clock-sets done, the last one
    bootSig, bootTz, sigReport, needSet, setCount, lastSet,
    \* history of loop(): whether it has run (0 or 1), the rule pair of the
    \* last conversion, whether the last iteration ran the cycle, whether any
    \* did, the instant of the cold-start cycle, the instants of the later
    \* cycles, whether every second was observed since the cold start (the
    \* instants are kept while that is so)
    iter, usedRules, fired, coldDone, coldAt, cycles, contig,
    \* the same scheduler fed the same UTC instants under another rule pair
    altFirst, altTLast, altFired,
    \* whether the log file could not be opened in some cycle
    sdFailed,
    \* the values the sensor returned to the last mkTempStr()/mkHumidStr(), and
    \* the number of calls of the sensor made by the last loop() iteration
    lastRead, reads,
    \* the text of the last row appended to the SD file and of the last record
    \* line printed on the console
    sdRow, conLine,
    \* hardware: whether somebody moves the mode jumper while the sketch runs
    jumper,
    \* the resets that cut a setClock() short between its two EEPROM writes
    resets,
    \* how SD.begin() ended in setup(): "none" before it is called
    sdInit

progVars == <<pc, ret, eeprom, rtc, rtcFault, modePin, led, rx, attended, late, sysTime, nextSyncTime,
              Status, myTZ, tcr, zone, doLog, bufDate, bufTime, bufTemp, bufHumid,
              first, tLast, conRecord, conOut, conErr, conUtc, sdLast, lcd>>

histVars == <<lineCount, kinds, rejected, staleParsed, flowEndedUnset, bootSig, bootTz,
              sigReport, needSet, setCount, lastSet, iter, usedRules, fired, coldDone,
              coldAt, cycles, contig, altFirst, altTLast, altFired, sdFailed>>

readVars == <<lastRead, reads>>

outVars == <<sdRow, conLine>>

vars == <<progVars, histVars, readVars, outVars, jumper, resets, sdInit>>

\* nothing yet: an optional value is <<>> or <<value>>
NoRecord == <<>>

\* TimeLib's syncInterval before setSyncInterval() is called
DefaultSyncInterval == 300

\* now(): the software clock, synchronised with the hardware counter through
\* RTC.get() (0 when the read fails) once nextSyncTime is reached
now(sys, nst, st, hw, fault) ==
    IF ~ULess(sys, nst)
    THEN IF ~fault /\ hw # 0
         THEN [sysTime |-> hw, nextSyncTime |-> hw + SyncInterval, Status |-> "timeSet"]
         ELSE [sysTime |-> sys, nextSyncTime |-> sys + SyncInterval,
               Status |-> IF st = "timeNotSet" THEN "timeNotSet" ELSE "timeNeedsSync"]
    ELSE [sysTime |-> sys, nextSyncTime |-> nst, Status |-> st]

\* the bookkeeping of one setClock() call with result r on buffer buf
SetClockHistory(r, buf) ==
    /\ staleParsed' = (staleParsed \/ LinesOf(r.parsed) \cap rejected # {})
    /\ rejected' = IF r.outcome = "error"
                   THEN rejected \cup {r.parsed[Len(r.parsed)].ln}
                   ELSE rejected
    /\ flowEndedUnset' = (flowEndedUnset \/ r.outcome # "set")
    /\ setCount' = IF r.outcome = "set" THEN setCount + 1 ELSE setCount
    /\ lastSet' = IF r.outcome = "set"
                  THEN << [local |-> r.local, tm |-> r.tm, utc |-> r.rtc,
                           ln |-> Head(buf).ln,
                           whole |-> buf = LineBytes(kinds[Head(buf).ln], Head(buf).ln)] >>
                  ELSE lastSet

(***************************************************************************)
(* Power-up: the globals and statics as the sketch initialises them, the   *)
(* hardware in any of the sampled conditions.                              *)
(***************************************************************************)
Init ==
    /\ pc = "boot" /\ ret = "none"
    /\ \E hw \in PowerUpSamples :
          /\ eeprom = [by1 |-> hw.by1, by2 |-> hw.by2, tz |-> hw.tz]
          /\ rtc = hw.rtc
          /\ rtcFault = hw.rtcFault
          /\ modePin = hw.modePin
          /\ attended = hw.attended
          /\ jumper = hw.jumper
    /\ led = 0 /\ rx = <<>> /\ late = 0
    /\ sysTime = 0 /\ nextSyncTime = 0 /\ Status = "timeNotSet"
    /\ myTZ = DefaultRules /\ tcr = NoRecord
    /\ zone = SHOWLOC /\ doLog = 1
    /\ bufDate = NoRecord /\ bufTime = NoRecord /\ bufTemp = NoRecord /\ bufHumid = NoRecord
    /\ first = 1 /\ tLast = 0
    /\ conRecord = NoRecord /\ conOut = <<>> /\ conErr = 0 /\ conUtc = 0 /\ sdLast = NoRecord
    /\ lcd = NoRecord
    /\ lineCount = 0 /\ kinds = <<>> /\ rejected = {} /\ staleParsed = FALSE
    /\ flowEndedUnset = FALSE
    /\ bootSig = <<>> /\ bootTz = NoRecord /\ sigReport = "none" /\ needSet = FALSE
    /\ setCount = 0 /\ lastSet = NoRecord
    /\ iter = 0 /\ usedRules = NoRecord /\ fired = FALSE /\ coldDone = FALSE
    /\ coldAt = 0 /\ cycles = <<>> /\ contig = FALSE
    /\ altFirst = 1 /\ altTLast = 0 /\ altFired = FALSE
    /\ sdFailed = FALSE
    /\ lastRead = <<>>
    /\ reads = [temp |-> 0, hum |-> 0]
    /\ sdRow = <<>> /\ conLine = <<>>
    /\ resets = 0
    /\ sdInit = "none"

(***************************************************************************)
(* Environment.                                                            *)
(***************************************************************************)
\* a second passes between two iterations of loop(), which is held up for
\* MaxDelay seconds at most
Tick ==
    /\ pc = "loop"
    /\ late < MaxDelay
    /\ InWindow(sysTime + 1)
    /\ sysTime' = sysTime + 1
    /\ rtc' = rtc + 1
    /\ late' = late + 1
    /\ UNCHANGED <<pc, ret, eeprom, rtcFault, modePin, led, rx, attended, nextSyncTime, Status,
                   myTZ, tcr, zone, doLog, bufDate, bufTime, bufTemp, bufHumid, first,
                   tLast, conRecord, conOut, conErr, conUtc, sdLast, lcd>>
    /\ UNCHANGED histVars
    /\ UNCHANGED readVars
    /\ UNCHANGED outVars
    /\ UNCHANGED jumper
    /\ UNCHANGED resets
    /\ UNCHANGED sdInit

\* the operator stays away while setClock() waits for input
Idle ==
    /\ pc = "wait" /\ rx = <<>>
    /\ InWindow(sysTime + IdleDelay)
    /\ sysTime' = sysTime + IdleDelay
    /\ rtc' = rtc + IdleDelay
    /\ UNCHANGED <<pc, ret, eeprom, rtcFault, modePin, led, rx, attended, late, nextSyncTime, Status,
                   myTZ, tcr, zone, doLog, bufDate, bufTime, bufTemp, bufHumid, first,
                   tLast, conRecord, conOut, conErr, conUtc, sdLast, lcd>>
    /\ UNCHANGED histVars
    /\ UNCHANGED readVars
    /\ UNCHANGED outVars
    /\ UNCHANGED jumper
    /\ UNCHANGED resets
    /\ UNCHANGED sdInit

\* the operator sends a line, once the line sent before has been read
OperatorSend ==
    /\ attended
    /\ pc # "halt"
    /\ lineCount < MaxLines
    /\ rx = <<>>
    /\ \E k \in LineKinds :
          /\ rx' = rx \o LineBytes(k, lineCount + 1)
          /\ kinds' = Append(kinds, k)
    /\ lineCount' = lineCount + 1
    /\ UNCHANGED <<pc, ret, eeprom, rtc, rtcFault, modePin, led, attended, late, sysTime, nextSyncTime,
                   Status, myTZ, tcr, zone, doLog, bufDate, bufTime, bufTemp, bufHumid,
                   first, tLast, conRecord, conOut, conErr, conUtc, sdLast, lcd>>
    /\ UNCHANGED <<rejected, staleParsed, flowEndedUnset, bootSig, bootTz, sigReport,
                   needSet, setCount, lastSet, iter, usedRules, fired, coldDone, coldAt,
                   cycles, contig, altFirst, altTLast, altFired, sdFailed>>
    /\ UNCHANGED readVars
    /\ UNCHANGED outVars
    /\ UNCHANGED jumper
    /\ UNCHANGED resets
    /\ UNCHANGED sdInit

\* the mode jumper is pulled off or put back while loop() runs
MoveJumper ==
    /\ jumper
    /\ pc = "loop"
    /\ modePin' = 1 - modePin
    /\ UNCHANGED <<pc, ret, eeprom, rtc, rtcFault, led, rx, attended, late, sysTime, nextSyncTime,
                   Status, myTZ, tcr, zone, doLog, bufDate, bufTime, bufTemp, bufHumid,
                   first, tLast, conRecord, conOut, conErr, conUtc, sdLast, lcd>>
    /\ UNCHANGED histVars
    /\ UNCHANGED readVars
    /\ UNCHANGED outVars
    /\ UNCHANGED jumper
    /\ UNCHANGED resets
    /\ UNCHANGED sdInit

(***************************************************************************)
(* setup().                                                                *)
(***************************************************************************)
\* setup() up to the signature check: mode pin, LED, splash screen, then
\* either the "EEPROM Valid" branch or the call of setClock()
Boot ==
    /\ pc = "boot"
    /\ zone' = adjustMode(modePin)
    /\ led' = 0
    /\ bootSig' = <<eeprom.by1, eeprom.by2>>
    /\ bootTz' = <<eeprom.tz>>
    /\ IF validSignature(eeprom)
       THEN \* Timezone myTZ(EEBASE+2) declares an object local to the block:
            \* the global myTZ keeps the compiled-in rules
            /\ sigReport' = "valid"
            /\ lcd' = <<"Timezone", "info loaded">>
            /\ pc' = "sync" /\ ret' = "none"
            /\ sysTime' = sysTime + 3 * (HUMAN \div 1000)
            /\ rtc' = rtc + 3 * (HUMAN \div 1000)
            /\ UNCHANGED needSet
       ELSE /\ sigReport' = "invalid"
            /\ lcd' = <<"EEPROM Invalid", "Set Time">>
            /\ pc' = "wait" /\ ret' = "sync"
            /\ sysTime' = sysTime + (HUMAN \div 1000)
            /\ rtc' = rtc + (HUMAN \div 1000)
            /\ needSet' = TRUE
    /\ UNCHANGED <<eeprom, rtcFault, modePin, rx, attended, late, nextSyncTime, Status, myTZ, tcr, doLog,
                   bufDate, bufTime, bufTemp, bufHumid, first, tLast, conRecord, conOut, conErr,
                   conUtc, sdLast>>
    /\ UNCHANGED <<lineCount, kinds, rejected, staleParsed, flowEndedUnset, setCount,
                   lastSet, iter, usedRules, fired, coldDone, coldAt, cycles,
                   contig, altFirst, altTLast, altFired, sdFailed>>
    /\ UNCHANGED readVars
    /\ UNCHANGED outVars
    /\ UNCHANGED jumper
    /\ UNCHANGED resets
    /\ UNCHANGED sdInit

\* setClock() called from setup(), once serial input is available
SetClockWait ==
    /\ pc = "wait"
    /\ rx # <<>>
    /\ \E r \in { setClock(rx, myTZ, eeprom) } :
       \E isSet \in { r.outcome = "set" } :
           /\ rx' = r.rx
           /\ eeprom' = r.ee
           /\ rtc' = IF isSet THEN r.rtc ELSE rtc
           /\ sysTime' = IF isSet THEN r.utc ELSE sysTime
           /\ nextSyncTime' = IF isSet
                              THEN r.utc + (IF ret = "sync" THEN DefaultSyncInterval
                                                            ELSE SyncInterval)
                              ELSE nextSyncTime
           /\ Status' = IF isSet THEN "timeSet" ELSE Status
           /\ conRecord' = IF isSet THEN <<bufDate, bufTime, bufTemp, bufHumid>>
                                    ELSE conRecord
           /\ conOut' = IF isSet
                        THEN << [kind |-> "set", at |-> r.utc,
                                 rec |-> <<bufDate, bufTime, bufTemp, bufHumid>>] >>
                        ELSE <<>>
           /\ conLine' = IF isSet THEN consoleUpdate(bufDate, bufTime, bufTemp, bufHumid)
                                  ELSE conLine
           /\ conErr' = IF r.outcome = "error" THEN conErr + 1 ELSE conErr
           /\ usedRules' = IF isSet THEN <<myTZ>> ELSE usedRules
           /\ SetClockHistory(r, rx)
    /\ pc' = ret /\ ret' = "none"
    /\ UNCHANGED <<rtcFault, modePin, led, attended, late, myTZ, tcr, zone, doLog, bufDate, bufTime,
                   bufTemp, bufHumid, first, tLast, conUtc, sdLast, lcd>>
    /\ UNCHANGED <<lineCount, kinds, bootSig, bootTz, sigReport, needSet, iter, fired,
                   coldDone, coldAt, cycles, contig, altFirst, altTLast, altFired, sdFailed>>
    /\ UNCHANGED readVars
    /\ UNCHANGED sdRow
    /\ UNCHANGED jumper
    /\ UNCHANGED resets
    /\ UNCHANGED sdInit

\* the processor is reset (power loss, reset button) while setup() is in
\* setClock(), after writeSignature() and before myTZ.writeRules(): the
\* DS3231 and the signature bytes are written, the rule region is not, and
\* the sketch starts again with its globals and statics initialised
ResetInSetClock ==
    /\ pc = "wait"
    /\ rx # <<>>
    /\ \E r \in { setClock(rx, myTZ, eeprom) } :
           /\ r.outcome = "set"
           /\ eeprom' = writeSignature(eeprom)
           /\ rtc' = r.rtc
    /\ pc' = "boot" /\ ret' = "none"
    /\ led' = 0 /\ rx' = <<>> /\ late' = 0
    /\ sysTime' = 0 /\ nextSyncTime' = 0 /\ Status' = "timeNotSet"
    /\ myTZ' = DefaultRules /\ tcr' = NoRecord
    /\ zone' = SHOWLOC /\ doLog' = 1
    /\ bufDate' = NoRecord /\ bufTime' = NoRecord /\ bufTemp' = NoRecord /\ bufHumid' = NoRecord
    /\ first' = 1 /\ tLast' = 0
    /\ conRecord' = NoRecord /\ conOut' = <<>> /\ conErr' = 0 /\ conUtc' = 0
    /\ lcd' = NoRecord
    /\ rejected' = {} /\ staleParsed' = FALSE /\ flowEndedUnset' = FALSE
    /\ bootSig' = <<>> /\ bootTz' = NoRecord /\ sigReport' = "none" /\ needSet' = FALSE
    /\ setCount' = 0 /\ lastSet' = NoRecord
    /\ iter' = 0 /\ usedRules' = NoRecord /\ fired' = FALSE /\ coldDone' = FALSE
    /\ coldAt' = 0 /\ cycles' = <<>> /\ contig' = FALSE
    /\ altFirst' = 1 /\ altTLast' = 0 /\ altFired' = FALSE
    /\ lastRead' = <<>>
    /\ reads' = [temp |-> 0, hum |-> 0]
    /\ conLine' = <<>>
    /\ resets' = resets + 1
    /\ sdInit' = "none"
    \* the hardware, the card's file and the operator's lines stay
    /\ UNCHANGED <<rtcFault, modePin, attended, jumper, sdLast, sdRow, sdFailed,
                   lineCount, kinds>>

\* setup() from setSyncProvider(RTC.get) to the timeStatus() check
Sync ==
    /\ pc = "sync"
    /\ \E n \in { now(sysTime, sysTime, Status, rtc, rtcFault) } :
           /\ sysTime' = n.sysTime + (HUMAN \div 1000)
           /\ nextSyncTime' = n.sysTime + SyncInterval
           /\ Status' = n.Status
           /\ rtc' = rtc + (HUMAN \div 1000)
           /\ IF n.Status # "timeSet"
              THEN /\ lcd' = <<"RTC FAIL!", "Set Time">>
                   /\ pc' = "wait" /\ ret' = "init"
                   /\ needSet' = TRUE
              ELSE /\ lcd' = <<"RTC Sync">>
                   /\ pc' = "init" /\ ret' = "none"
                   /\ UNCHANGED needSet
    /\ UNCHANGED <<eeprom, rtcFault, modePin, led, rx, attended, late, myTZ, tcr, zone, doLog, bufDate,
                   bufTime, bufTemp, bufHumid, first, tLast, conRecord, conOut, conErr, conUtc,
                   sdLast>>
    /\ UNCHANGED <<lineCount, kinds, rejected, staleParsed, flowEndedUnset, bootSig,
                   bootTz, sigReport, setCount, lastSet, iter, usedRules, fired, coldDone,
                   coldAt, cycles, contig, altFirst, altTLast, altFired, sdFailed>>
    /\ UNCHANGED readVars
    /\ UNCHANGED outVars
    /\ UNCHANGED jumper
    /\ UNCHANGED resets
    /\ UNCHANGED sdInit

\* setup() that goes on logging when SD.begin() fails
doLogAfterBeginKept(ok, log) == log

\* if (!SD.begin(SDCS)) doLog = 0
doLogAfterBegin(ok, log) == IF ok THEN log ELSE 0

\* the rest of setup(): sensors read once, SD card initialised
InitSensors ==
    /\ pc = "init"
    /\ \E smp \in SensorSamples, sdPresent \in BOOLEAN :
          /\ bufTemp' = mkTempStr(smp.temp)
          /\ bufHumid' = mkHumidStr(smp.hum)
          /\ doLog' = doLogAfterBegin(sdPresent, doLog)
          /\ sdInit' = IF sdPresent THEN "ok" ELSE "failed"
          /\ lastRead' = <<smp>>
    /\ sysTime' = sysTime + 2 * (HUMAN \div 1000)
    /\ rtc' = rtc + 2 * (HUMAN \div 1000)
    /\ lcd' = NoRecord
    /\ pc' = "loop"
    /\ UNCHANGED <<ret, eeprom, rtcFault, modePin, led, rx, attended, late, nextSyncTime, Status, myTZ,
                   tcr, zone, bufDate, bufTime, first, tLast, conRecord, conOut, conErr, conUtc,
                   sdLast>>
    /\ UNCHANGED histVars
    /\ UNCHANGED reads
    /\ UNCHANGED outVars
    /\ UNCHANGED jumper
    /\ UNCHANGED resets

(***************************************************************************)
(* loop(): one iteration.                                                  *)
(***************************************************************************)
\* the test of the sample-and-log cycle with the seconds left out
cycleDueEveryMinute(isFirst, utc) == isFirst = 1 \/ minute(utc) % 5 = 0

\* sdLog() that returns when the file cannot be opened
sdLogReturns(opened) == "done"

\* sdLog(): the row is appended, or halt(75, 200) is entered and never left
sdLog(opened) == IF opened THEN "done" ELSE "halt"

\* first || (second(utc) == 0) && (minute(utc) % 5) == 0
cycleDue(isFirst, utc) == isFirst = 1 \/ (second(utc) = 0 /\ minute(utc) % 5 = 0)

Loop ==
    /\ pc = "loop"
    /\ \E r \in { IF rx # <<>> THEN setClock(rx, myTZ, eeprom)
                  ELSE [outcome |-> "none", rx |-> rx, ee |-> eeprom, parsed |-> <<>>] } :
       \E isSet \in { r.outcome = "set" } :
       \E n \in { now(IF isSet THEN r.utc ELSE sysTime,
                      IF isSet THEN r.utc + SyncInterval ELSE nextSyncTime,
                      IF isSet THEN "timeSet" ELSE Status,
                      IF isSet THEN r.rtc ELSE rtc, rtcFault) } :
       \E utc \in { n.sysTime } :
       \E loc \in { toLocal(myTZ, utc) }, tAlt \in { toLocal(OtherRules, utc).t } :
       \E z \in { adjustMode(modePin) }, t \in { loc.t } :
       \E changed \in { t # tLast }, altChanged \in { tAlt # altTLast } :
       \E due \in { changed /\ cycleDue(first, utc) },
          altDue \in { altChanged /\ cycleDue(altFirst, utc) } :
       \E smp \in IF due THEN SensorSamples ELSE {CHOOSE x \in SensorSamples : TRUE},
          sdOk \in IF due /\ doLog = 1 THEN BOOLEAN ELSE {TRUE} :
       \E halts \in { due /\ doLog = 1 /\ sdLog(sdOk) = "halt" } :
       \E newTemp \in { IF due THEN mkTempStr(smp.temp) ELSE bufTemp },
          newHum \in { IF due THEN mkHumidStr(smp.hum) ELSE bufHumid },
          shown \in { IF z = SHOWLOC /\ ~halts THEN t ELSE utc } :
       \E record \in { IF due THEN <<mkDateStr(utc), mkTimeStr(utc), newTemp, newHum>>
                       ELSE NoRecord },
          newDate \in { IF changed THEN mkDateStr(shown) ELSE bufDate },
          newTime \in { IF changed THEN mkTimeStr(shown) ELSE bufTime } :
             /\ zone' = z
             /\ late' = 0
             /\ rx' = r.rx
             /\ eeprom' = r.ee
             /\ rtc' = IF isSet THEN r.rtc ELSE rtc
             /\ sysTime' = n.sysTime
             /\ nextSyncTime' = n.nextSyncTime
             /\ Status' = n.Status
             /\ conErr' = IF r.outcome = "error" THEN conErr + 1 ELSE conErr
             /\ conUtc' = utc
             /\ tcr' = <<loc.tcr>>
             /\ bufDate' = newDate
             /\ bufTime' = newTime
             /\ bufTemp' = newTemp
             /\ bufHumid' = newHum
             /\ first' = IF due THEN 0 ELSE first
             /\ sdLast' = IF due /\ doLog = 1 /\ sdOk THEN record ELSE sdLast
             /\ conRecord' = IF due /\ ~halts THEN record
                             ELSE IF isSet THEN <<bufDate, bufTime, bufTemp, bufHumid>>
                             ELSE conRecord
             /\ conOut' = (IF isSet
                           THEN << [kind |-> "set", at |-> r.utc,
                                    rec |-> <<bufDate, bufTime, bufTemp, bufHumid>>] >>
                           ELSE <<>>)
                          \o (IF due /\ ~halts
                              THEN << [kind |-> "cycle", at |-> utc, rec |-> record] >>
                              ELSE <<>>)
             /\ lcd' = IF changed /\ ~halts
                       THEN <<newTime, newDate, newTemp, newHum>>
                       ELSE lcd
             /\ tLast' = IF changed /\ ~halts THEN t ELSE tLast
             /\ pc' = IF halts THEN "halt" ELSE "loop"
             /\ usedRules' = <<myTZ>>
             /\ IF rx # <<>>
                THEN SetClockHistory(r, rx)
                ELSE UNCHANGED <<staleParsed, rejected, flowEndedUnset, setCount, lastSet>>
             /\ iter' = 1
             /\ fired' = due
             /\ coldDone' = (coldDone \/ due)
             /\ \E c \in { IF due /\ first = 1 THEN TRUE
                            ELSE contig /\ (utc = conUtc \/ utc = conUtc + 1) } :
                   /\ contig' = c
                   /\ coldAt' = IF ~c THEN 0
                                ELSE IF due /\ first = 1 THEN utc ELSE coldAt
                   /\ cycles' = IF ~c THEN <<>>
                                ELSE IF due /\ first = 0 THEN Append(cycles, utc)
                                ELSE cycles
             /\ altFirst' = IF altDue THEN 0 ELSE altFirst
             /\ altTLast' = IF altChanged THEN tAlt ELSE altTLast
             /\ altFired' = altDue
             /\ sdFailed' = (sdFailed \/ (due /\ doLog = 1 /\ ~sdOk))
             /\ lastRead' = IF due THEN <<smp>> ELSE lastRead
             /\ sdRow' = IF due /\ doLog = 1 /\ sdOk
                         THEN sdLogRow(mkDateStr(utc), mkTimeStr(utc), newTemp, newHum)
                         ELSE sdRow
             /\ conLine' = IF due /\ ~halts
                           THEN consoleUpdate(mkDateStr(utc), mkTimeStr(utc), newTemp, newHum)
                           ELSE IF isSet
                                THEN consoleUpdate(bufDate, bufTime, bufTemp, bufHumid)
                                ELSE conLine
             /\ reads' = IF due THEN [temp |-> readCalls(smp.temp), hum |-> readCalls(smp.hum)]
                         ELSE [temp |-> 0, hum |-> 0]
    /\ UNCHANGED <<ret, rtcFault, modePin, led, attended, myTZ, doLog>>
    /\ UNCHANGED <<lineCount, kinds, bootSig, bootTz, sigReport, needSet>>
    /\ UNCHANGED jumper
    /\ UNCHANGED resets
    /\ UNCHANGED sdInit

\* halt(75, 200): the on-board LED blinks for ever
HaltBlink ==
    /\ pc = "halt"
    /\ led' = 1 - led
    /\ UNCHANGED <<pc, ret, eeprom, rtc, rtcFault, modePin, rx, attended, late, sysTime, nextSyncTime,
                   Status, myTZ, tcr, zone, doLog, bufDate, bufTime, bufTemp, bufHumid,
                   first, tLast, conRecord, conOut, conErr, conUtc, sdLast, lcd>>
    /\ UNCHANGED histVars
    /\ UNCHANGED readVars
    /\ UNCHANGED outVars
    /\ UNCHANGED jumper
    /\ UNCHANGED resets
    /\ UNCHANGED sdInit

Next ==
    \/ Tick
    \/ Idle
    \/ OperatorSend
    \/ MoveJumper
    \/ Boot
    \/ SetClockWait
    \/ ResetInSetClock
    \/ Sync
    \/ InitSensors
    \/ Loop
    \/ HaltBlink

Spec == Init /\ [][Next]_vars

\* halt() never stops looping
SpecFair == Spec /\ WF_vars(HaltBlink)

(***************************************************************************)
(* Properties of the sample-and-log scheduler.                             *)
(***************************************************************************)
\* the instants loop() treats as the start of a 5-minute bucket
BucketStart(t) == second(t) = 0 /\ minute(t) % 5 = 0

\* the cycles after the cold start that ran in bucket k
CyclesIn(k) == {i \in 1 .. Len(cycles) : Bucket(cycles[i]) = k}

\* C1: while loop() has observed every second since the cold-start cycle,
\* in non-decreasing order and any number of times each, every bucket
\* entered since then has had exactly one sample-and-log cycle, each cycle
\* ran at second 0 of a minute that is a multiple of 5, and the bucket of
\* the cold start has had no second cycle.
C1_OncePerBucket ==
    contig =>
        /\ \A i \in 1 .. Len(cycles) :
              /\ BucketStart(cycles[i])
              /\ Bucket(coldAt) < Bucket(cycles[i])
              /\ cycles[i] <= conUtc
        /\ \A k \in Bucket(coldAt) + 1 .. Bucket(conUtc) : Cardinality(CyclesIn(k)) = 1

\* a whole bucket was observed second by second: its cycle and the next
\* bucket's cycle have run, 300 seconds apart
C1_Witness ==
    /\ contig
    /\ Len(cycles) = 2
    /\ cycles[2] = cycles[1] + 300
    /\ conUtc > cycles[2]

\* C2: once loop() has run, the cold-start cycle has run.
C2_ColdStartAlways == iter = 1 => coldDone

\* C3: an iteration of loop() that finds the clock in a later bucket than
\* the iteration before it did, the clock not having been set in between,
\* runs the sample-and-log cycle, whether or not the boundary second itself
\* was observed.
C3_BucketEnteredIsSampled ==
    [][(/\ pc = "loop" /\ iter = 1 /\ coldDone
        /\ setCount' = setCount
        /\ conUtc < conUtc'
        /\ Bucket(conUtc) < Bucket(conUtc'))
       => fired']_vars

\* C4: once both have had their cold start, the scheduler and the same
\* scheduler fed the same UTC instants under another rule pair run the
\* cycle in the same iterations.
C4_RulesDoNotMatter == (first = 0 /\ altFirst = 0) => fired = altFired

\* C5: with a signature found valid at start-up, the conversions of loop()
\* and of setClock() use the rule pair that was stored in the EEPROM.
C5_StoredRulesUsed ==
    (sigReport = "valid" /\ usedRules # NoRecord) => usedRules = bootTz

(***************************************************************************)
(* Properties of the stored configuration and of the clock-set flow.       *)
(***************************************************************************)
\* C6: setup() reports the stored configuration valid exactly when the
\* byte at EEBASE is 0x55 and the byte at EEBASE + 1 is 0xAA.
C6_ValidIffBothBytes ==
    sigReport # "none" =>
        ((sigReport = "valid") <=> (bootSig[1] = 85 /\ bootSig[2] = 170))

\* a signature with one matching byte was reported invalid
C6_Witness == sigReport = "invalid" /\ (bootSig[1] = 85 \/ bootSig[2] = 170)

\* the calendar fields of local instant t are the six integers of line k
\* (a year below 100 counts from 2000)
EnteredAs(k, t) ==
    LET f == LineFields(k)
    IN  /\ year(t) = IF f[1] < 100 THEN 2000 + f[1] ELSE f[1]
        /\ month(t) = f[2] /\ day(t) = f[3]
        /\ hour(t) = f[4] /\ minute(t) = f[5] /\ second(t) = f[6]

\* the year of line k is one a time_t can hold
YearHeld(k) ==
    LET y == LineFields(k)[1]
    IN  (0 <= y /\ y < 100) \/ (1970 <= y /\ y <= 2105)

C8_RejectedChangesNothing ==
    [][conErr' > conErr => (rtc' = rtc /\ sysTime' = sysTime /\ eeprom' = eeprom)]_vars

\* a line was rejected on a device that has never had its clock set
C8_Witness == conErr > 0 /\ setCount = 0 /\ ~validSignature(eeprom)

\* C9: no byte of a rejected line is parsed by a later call of setClock().
C9_RejectedLineDiscarded == ~staleParsed

\* C10: when setup() asked for a clock-set, loop() runs only after one
\* succeeded.
C10_NoLoopBeforeClockSet == (pc = "loop" /\ needSet) => setCount > 0

\* C11: after setClock() has set the clock from one whole line, the local
\* time it made has the calendar fields of the line: year 2000 + y for
\* y < 100, year y for y >= 1000, then month, day, hour, minute, second.
C11_FieldsAsEntered ==
    (setCount > 0 /\ lastSet[1].whole) => EnteredAs(kinds[lastSet[1].ln], lastSet[1].local)

(***************************************************************************)
(* Properties of the time-zone conversions.                                *)
(***************************************************************************)
\* setClock() has set the clock from the whole line of kind k under the
\* compiled-in rule pair
SetFrom(k) ==
    /\ setCount > 0 /\ lastSet[1].whole /\ kinds[lastSet[1].ln] = k
    /\ usedRules = <<DefaultRules>>

\* C12 (as the code has it): for the line 24,3,15,9,30,0 the instant written
\* to the hardware counter is computed with the rule in force on 2024-03-15,
\* which is the daylight rule EDT, offset -240 (daylight time began on
\* 2024-03-10, the second Sunday of March): 2024-03-15 13:30:00 UTC.
C12_MarchUsesDaylightRule ==
    SetFrom("march") =>
        /\ lastSet[1].utc = lastSet[1].local - myDST.offset * 60
        /\ mkDateStr(lastSet[1].utc) = <<2024, 3, 15>>
        /\ mkTimeStr(lastSet[1].utc) = <<13, 30, 0>>

\* the clock was set from that line
C12_Witness == SetFrom("march") /\ mkTimeStr(lastSet[1].local) = <<9, 30, 0>>

\* C12 (as stated): for the line 24,3,15,9,30,0 the instant written to the
\* hardware counter is computed with the standard rule, offset -300.
C12_MarchUsesStandardRule ==
    SetFrom("march") => lastSet[1].utc = lastSet[1].local - mySTD.offset * 60

\* loop() has just converted the UTC instant with these calendar fields
\* and shown it
Converted(date, time) ==
    /\ pc = "loop" /\ iter = 1 /\ late = 0
    /\ myTZ = DefaultRules
    /\ mkDateStr(conUtc) = date /\ mkTimeStr(conUtc) = time

\* C13: under the compiled-in rule pair loop() converts UTC 2024-11-03
\* 05:59:59 to local 2024-11-03 01:59:59 with rule EDT (offset -240) and
\* UTC 2024-11-03 06:00:00 to local 2024-11-03 01:00:00 with rule EST
\* (offset -300).  The LCD was written by the iteration in which the
\* local second changed, in the mode the jumper selected then: it shows
\* the local or the UTC rendering of the instant, and the local one
\* whenever local display is selected and the jumper cannot have moved.
C13_FallBackConversion ==
    /\ Converted(<<2024, 11, 3>>, <<5, 59, 59>>) =>
          /\ mkDateStr(tLast) = <<2024, 11, 3>> /\ mkTimeStr(tLast) = <<1, 59, 59>>
          /\ tcr[1].abbrev = "EDT" /\ tcr[1].offset = -240
          /\ lcd[1] \in {<<1, 59, 59>>, <<5, 59, 59>>} /\ lcd[2] = <<2024, 11, 3>>
          /\ (zone = SHOWLOC /\ ~ jumper) => lcd[1] = <<1, 59, 59>>
    /\ Converted(<<2024, 11, 3>>, <<6, 0, 0>>) =>
          /\ mkDateStr(tLast) = <<2024, 11, 3>> /\ mkTimeStr(tLast) = <<1, 0, 0>>
          /\ tcr[1].abbrev = "EST" /\ tcr[1].offset = -300
          /\ lcd[1] \in {<<1, 0, 0>>, <<6, 0, 0>>} /\ lcd[2] = <<2024, 11, 3>>
          /\ (zone = SHOWLOC /\ ~ jumper) => lcd[1] = <<1, 0, 0>>

\* loop() has converted 06:00:00 UTC one second after it converted
\* 05:59:59 UTC, and shows local time
C13_Witness ==
    /\ Converted(<<2024, 11, 3>>, <<6, 0, 0>>)
    /\ contig /\ coldAt < conUtc
    /\ zone = SHOWLOC /\ tcr[1].abbrev = "EST"
    /\ ~ jumper /\ lcd[1] = <<1, 0, 0>>

\* the instants of the hour that follows the end of daylight time in the
\* year of t: their local times are those of the hour before
InRepeatedHour(rules, t) ==
    LET c == calcTimeChanges(rules, year(t))
    IN  ~ULess(t, c.stdUTC) /\ ULess(t, c.stdUTC + 3600)

\* toUTC(toLocal(t)) = t
RoundTrip(rules, t) == toUTC(rules, toLocal(rules, t).t) = t

\* from the end of daylight time in 2024 back to its start
SpringShift == FallBackUTC - calcTimeChanges(DefaultRules, 2024).dstUTC

\* C14: for the rule pair of loop() and of setClock(), every instant loop()
\* has observed, and the instant as far from the start of daylight time as
\* that one is from its end, converts to local time and back to itself,
\* unless it lies in the hour that follows the end of daylight time.
C14_RoundTrip ==
    iter = 1 =>
        /\ ~InRepeatedHour(myTZ, conUtc) => RoundTrip(myTZ, conUtc)
        /\ ~InRepeatedHour(myTZ, conUtc - SpringShift) => RoundTrip(myTZ, conUtc - SpringShift)

\* loop() has observed an instant of the last hour of daylight time, whose
\* local time comes again an hour later, and one second before the start
\* of daylight time corresponds to it
C14_Witness ==
    /\ iter = 1
    /\ conUtc = FallBackUTC - 1
    /\ toLocal(myTZ, conUtc).t = toLocal(myTZ, conUtc + 3600).t
    /\ toLocal(myTZ, conUtc - SpringShift).tcr = mySTD
    /\ toLocal(myTZ, conUtc - SpringShift + 1).tcr = myDST

\* C15: for the line 24,11,3,1,0,0, a local time of the hour that occurs
\* twice when daylight time ends, the instant written to the hardware
\* counter is the one obtained with the standard rule's offset.
C15_RepeatedHourToStandard ==
    SetFrom("two") =>
        /\ toLocal(DefaultRules, lastSet[1].local - mySTD.offset * 60).t = lastSet[1].local
        /\ lastSet[1].utc = lastSet[1].local - mySTD.offset * 60

(***************************************************************************)
(* Properties of the records, of the storage fault and of the sensors.     *)
(***************************************************************************)
\* C16: every record on the serial console, the one setClock() prints after
\* "RTC set to: ZULU" included, has the date and the time of the UTC
\* instant at which it is printed, and every row of the SD log the date and
\* the time of the UTC instant of its cycle.
C16_RecordsCarryUtcNow ==
    /\ \A i \in 1 .. Len(conOut) :
          /\ conOut[i].rec[1] = mkDateStr(conOut[i].at)
          /\ conOut[i].rec[2] = mkTimeStr(conOut[i].at)
    /\ (fired /\ pc = "loop" /\ doLog = 1) =>
          (sdLast[1] = mkDateStr(conUtc) /\ sdLast[2] = mkTimeStr(conUtc))

\* C17: once the log file could not be opened in a sample-and-log cycle,
\* the on-board LED goes on and off again and again, for ever.
C17_FaultLedBlinks == [](sdFailed => ([]<>(led = 1) /\ []<>(led = 0)))

\* the log file could not be opened and the LED is on
C17_Witness == sdFailed /\ pc = "halt" /\ led = 1

\* C18: after the log file could not be opened, loop() keeps running.
C18_LoopSurvivesFault == sdFailed => pc = "loop"

(***************************************************************************)
(* Sensor faults.                                                          *)
(***************************************************************************)
\* C19: a failed read (NaN) of the temperature or of the humidity leaves
\* "**" in that field, and the cycle that made the read still completes:
\* its record on the console, and its row on the card when logging is on,
\* carry the fields of that read.
C19_FailedReadIsPlaceholder ==
    /\ lastRead # <<>> =>
          /\ (lastRead[1].temp = NaN) => (bufTemp = Placeholder)
          /\ (lastRead[1].hum = NaN) => (bufHumid = Placeholder)
    /\ (iter = 1 /\ fired /\ ~ sdFailed) =>
          /\ pc = "loop"
          /\ conRecord[3] = mkTempStr(lastRead[1].temp)
          /\ conRecord[4] = mkHumidStr(lastRead[1].hum)
          /\ (doLog = 1) => (sdLast[3] = conRecord[3] /\ sdLast[4] = conRecord[4])

\* a scheduled cycle whose humidity read failed and whose temperature read
\* did not, logged with the placeholder
C19_Witness ==
    /\ iter = 1 /\ fired /\ pc = "loop" /\ doLog = 1 /\ Len(cycles) >= 1
    /\ lastRead[1].hum = NaN /\ lastRead[1].temp # NaN
    /\ sdLast[4] = Placeholder /\ conRecord[4] = Placeholder
    /\ sdLast[3] # Placeholder

\* C20: one loop() iteration calls each sensor once when it runs the
\* sample-and-log cycle, failed read or not, and not at all otherwise.
C20_OneReadPerCycle ==
    (iter = 1) =>
        /\ reads.temp = (IF fired THEN 1 ELSE 0)
        /\ reads.hum = (IF fired THEN 1 ELSE 0)

\* a cycle whose two reads failed and were made once each
C20_Witness ==
    /\ iter = 1 /\ fired /\ lastRead[1].temp = NaN /\ lastRead[1].hum = NaN
    /\ reads = [temp |-> 1, hum |-> 1]

(***************************************************************************)
(* The fields of a record.                                                 *)
(***************************************************************************)
\* the reading c, in hundredths, with one decimal place: the integer part
\* (which carries the sign), a dot and the digit of the tenths
OneDecimal(c) ==
    LET i == TruncHundredths(c)
        d == IF c >= 0 THEN c - 100 * i ELSE 100 * i - c
    IN  <<i, ".", d \div 10>>

\* C21: after a read that gave a temperature, bufTemp is that temperature
\* with one decimal place.
C21_TempOneDecimal ==
    (lastRead # <<>> /\ lastRead[1].temp # NaN) => bufTemp = OneDecimal(lastRead[1].temp)

\* C22: a row of the SD file is date, T, time, Z, comma, temperature,
\* comma, humidity and the line end, made of the fields the cycle logged;
\* the record line the same cycle prints on the console is equal to it.
C22_RowAndConsoleAgree ==
    /\ sdRow # <<>> =>
          /\ Len(sdRow) = 9
          /\ sdRow[2] = "T" /\ sdRow[4] = "Z" /\ sdRow[5] = "," /\ sdRow[7] = ","
          /\ sdRow[9] = "\r\n"
          /\ <<sdRow[1], sdRow[3], sdRow[6], sdRow[8]>> = sdLast
    /\ (iter = 1 /\ fired /\ pc = "loop" /\ doLog = 1) => conLine = sdRow

\* a scheduled cycle, after the cold-start one, has logged a row and printed
\* its record
C22_Witness ==
    /\ iter = 1 /\ fired /\ pc = "loop" /\ doLog = 1 /\ Len(cycles) >= 1
    /\ sdRow # <<>> /\ conLine = sdRow
    /\ sdRow[1] = mkDateStr(conUtc) /\ sdRow[6] # Placeholder

C24_OnlyClockSetWrites ==
    [][eeprom' # eeprom => (setCount' = setCount + 1 \/ resets' = resets + 1)]_vars

\* the one clock-set of the run wrote the signature, and loop() has run
\* since, on a device whose setup() found no valid signature
C24_Witness ==
    /\ setCount = 1 /\ iter = 1 /\ fired /\ pc = "loop"
    /\ bootSig # <<SIG1, SIG2>> /\ validSignature(eeprom)

(***************************************************************************)
(* Entering setClock().                                                    *)
(***************************************************************************)
\* C25: setup() waits in setClock() only on a device whose signature it
\* found invalid (loop() calls setClock() only with serial input present,
\* and does so inside its iteration).
C25_SetupEntersOnlyUnsigned == (pc = "wait") => (sigReport = "invalid")

\* C26: when the signature bytes are valid, the rule region holds a rule
\* pair a save wrote (it is not in its erased state).
C26_SignatureVouchesForRules == validSignature(eeprom) => eeprom.tz # NoRules

(***************************************************************************)
(* A run without the SD card.                                              *)
(***************************************************************************)
\* C27: once SD.begin() has failed in setup(), logging is off, no row is
\* appended, no open of the file fails and halt() is not entered; and an
\* iteration of loop() that sees the time changed at the cold start or at
\* second 0 of a minute that is a multiple of 5 runs the cycle, prints its
\* record for that instant and refreshes the LCD with it.
C27_NoCardNoLogNoHalt ==
    [][sdInit' = "failed" =>
          /\ doLog' = 0
          /\ pc' # "halt" /\ ~ sdFailed'
          /\ sdRow' = sdRow /\ sdLast' = sdLast
          /\ (pc = "loop" /\ tLast' # tLast
                /\ (first = 1 \/ (second(conUtc') = 0 /\ minute(conUtc') % 5 = 0))) =>
                /\ fired'
                /\ conOut' # <<>>
                /\ conOut'[Len(conOut')] =
                      [kind |-> "cycle", at |-> conUtc',
                       rec |-> <<mkDateStr(conUtc'), mkTimeStr(conUtc'), bufTemp', bufHumid'>>]
                /\ lcd'[3] = bufTemp' /\ lcd'[4] = bufHumid']_vars

\* a device whose SD.begin() failed has run a scheduled cycle after the
\* cold-start one, with nothing written to the card
C27_Witness ==
    /\ sdInit = "failed" /\ doLog = 0 /\ pc = "loop"
    /\ iter = 1 /\ fired /\ Len(cycles) >= 1
    /\ conRecord[1] = mkDateStr(conUtc) /\ conRecord[2] = mkTimeStr(conUtc)
    /\ sdLast = NoRecord

=============================================================================
